---- MODULE Spec2Model ----
(***************************************************************************)
(* Resume parsing pipeline (src/py): the JSON codec (JSONHandler, JSONer), *)
(* the document extractor (FileReader), the store adapter (MongoDB) and    *)
(* the orchestrator (ResumeParser.parse_resumes).                          *)
(*                                                                         *)
(* Text is modelled as a sequence of JSON tokens (whitespace, which        *)
(* json.load skips, is left out); Python values are records of one shape   *)
(* so that any two of them can be compared.                                *)
(***************************************************************************)
EXTENDS Integers, Sequences, FiniteSets, TLC

(***************************************************************************)
(* Bounds of the model.                                                    *)
(***************************************************************************)
\* number of file stems a directory listing draws from
MaxStems == 2
\* number of distinct keys a generated mapping draws from
MaxKeys == 2

(***************************************************************************)
(* Python values: None, bool, int, str, dict (insertion-ordered pairs).    *)
(***************************************************************************)
PyNone == [t |-> "None", b |-> FALSE, n |-> 0, s |-> "", o |-> <<>>]

PyBool(x) == [t |-> "bool", b |-> x, n |-> 0, s |-> "", o |-> <<>>]

PyInt(x) == [t |-> "int", b |-> FALSE, n |-> x, s |-> "", o |-> <<>>]

PyStr(x) == [t |-> "str", b |-> FALSE, n |-> 0, s |-> x, o |-> <<>>]

\* a dict is its sequence of [k, v] pairs in insertion order, keys distinct
PyDict(pairs) == [t |-> "dict", b |-> FALSE, n |-> 0, s |-> "", o |-> pairs]

Pair(key, val) == [k |-> key, v |-> val]

HasKey(pairs, key) == \E i \in 1..Len(pairs) : pairs[i].k = key

\* dict.get(key): the value stored under key, None when there is none
DictGet(d, key) ==
    IF HasKey(d.o, key)
    THEN d.o[CHOOSE i \in 1..Len(d.o) : d.o[i].k = key].v
    ELSE PyNone

\* d[key] = val: an existing key keeps its position, a new key goes last
DictSet(pairs, key, val) ==
    IF HasKey(pairs, key)
    THEN [i \in 1..Len(pairs) |->
             IF pairs[i].k = key THEN Pair(key, val) ELSE pairs[i]]
    ELSE Append(pairs, Pair(key, val))

(***************************************************************************)
(* JSON text as tokens.                                                    *)
(***************************************************************************)
Tok(kind) == [k |-> kind, s |-> "", n |-> 0]

TokStr(x) == [k |-> "str", s |-> x, n |-> 0]

TokInt(x) == [k |-> "int", s |-> "", n |-> x]

RECURSIVE DumpValue(_)
RECURSIVE DumpPairs(_)

\* json.dump's members of an object: "key": value, separated by commas, in
\* the dict's own order (sort_keys is not set)
DumpPairs(pairs) ==
    IF pairs = <<>> THEN <<>>
    ELSE <<TokStr(Head(pairs).k), Tok(":")>> \o DumpValue(Head(pairs).v)
         \o (IF Tail(pairs) = <<>> THEN <<>>
             ELSE <<Tok(",")>> \o DumpPairs(Tail(pairs)))

\* json.dump(value, ensure_ascii=False, indent=4)
DumpValue(v) ==
    CASE v.t = "None" -> <<Tok("null")>>
      [] v.t = "bool" -> <<Tok(IF v.b THEN "true" ELSE "false")>>
      [] v.t = "int"  -> <<TokInt(v.n)>>
      [] v.t = "str"  -> <<TokStr(v.s)>>
      [] v.t = "dict" -> <<Tok("{")>> \o DumpPairs(v.o) \o <<Tok("}")>>

ParseFail == [ok |-> FALSE, val |-> PyNone, rest |-> <<>>]

ParseOk(v, ts) == [ok |-> TRUE, val |-> v, rest |-> ts]

RECURSIVE ParseValue(_)
RECURSIVE ParseMembers(_, _)

\* the members of an object after "{" or ",": a string key, ":", a value,
\* then "}" (the object ends) or "," (another member must follow)
ParseMembers(ts, acc) ==
    IF Len(ts) < 2 \/ ts[1].k # "str" \/ ts[2].k # ":" THEN ParseFail
    ELSE LET r == ParseValue(SubSeq(ts, 3, Len(ts)))
             acc2 == DictSet(acc, ts[1].s, r.val)
         IN  IF ~r.ok \/ r.rest = <<>> THEN ParseFail
             ELSE IF Head(r.rest).k = "}"
                  THEN ParseOk(PyDict(acc2), Tail(r.rest))
             ELSE IF Head(r.rest).k = ","
                  THEN ParseMembers(Tail(r.rest), acc2)
             ELSE ParseFail

\* the decoder's scan of one value at the head of ts
ParseValue(ts) ==
    IF ts = <<>> THEN ParseFail
    ELSE LET h == Head(ts)
             rest == Tail(ts)
         IN  CASE h.k = "null"  -> ParseOk(PyNone, rest)
               [] h.k = "true"  -> ParseOk(PyBool(TRUE), rest)
               [] h.k = "false" -> ParseOk(PyBool(FALSE), rest)
               [] h.k = "int"   -> ParseOk(PyInt(h.n), rest)
               [] h.k = "str"   -> ParseOk(PyStr(h.s), rest)
               [] h.k = "{"     ->
                    IF rest # <<>> /\ Head(rest).k = "}"
                    THEN ParseOk(PyDict(<<>>), Tail(rest))
                    ELSE ParseMembers(rest, <<>>)
               [] OTHER         -> ParseFail

\* json.loads(text): one value and nothing after it, else JSONDecodeError
JsonLoads(ts) ==
    LET r == ParseValue(ts)
    IN  IF r.ok /\ r.rest = <<>> THEN [ok |-> TRUE, val |-> r.val]
        ELSE [ok |-> FALSE, val |-> PyNone]

(***************************************************************************)
(* Files.  st is what the path names: "nodir" (its directory does not      *)
(* exist), "missing" (no such file), "file" (a readable, writable UTF-8    *)
(* file holding toks), "binary" (a file whose bytes are not UTF-8),        *)
(* "locked" (a file the process may neither read nor write), "dir" (a      *)
(* directory).                                                             *)
(***************************************************************************)
File(state, text) == [st |-> state, toks |-> text]

\* open(path, "r", encoding="utf-8"): the exception it raises, or "none"
OpenRead(f) ==
    CASE f.st \in {"nodir", "missing"} -> "FileNotFoundError"
      [] f.st = "locked"               -> "PermissionError"
      [] f.st = "dir"                  -> "IsADirectoryError"
      [] OTHER                         -> "none"

\* open(path, "w", encoding="utf-8"): the exception it raises, or "none"
OpenWrite(f) ==
    CASE f.st = "nodir"  -> "FileNotFoundError"
      [] f.st = "locked" -> "PermissionError"
      [] f.st = "dir"    -> "IsADirectoryError"
      [] OTHER           -> "none"

\* os.path.isfile(path)
IsFile(f) == f.st \in {"file", "binary", "locked"}

\* with open(path, "r", encoding="utf-8") as f: return json.load(f)
JsonLoadFile(f) ==
    IF OpenRead(f) # "none" THEN [exc |-> OpenRead(f), val |-> PyNone]
    ELSE IF f.st = "binary" THEN [exc |-> "UnicodeDecodeError", val |-> PyNone]
    ELSE IF ~JsonLoads(f.toks).ok THEN [exc |-> "JSONDecodeError", val |-> PyNone]
    ELSE [exc |-> "none", val |-> JsonLoads(f.toks).val]

\* every exception the model raises is a subclass of Exception
Exceptions ==
    {"FileNotFoundError", "PermissionError", "IsADirectoryError",
     "UnicodeDecodeError", "JSONDecodeError", "ValueError", "AttributeError",
     "TypeError", "ConnectionFailure", "WriteError", "Exception",
     "ServiceError"}

\* the except clauses of JSONHandler.load_json: FileNotFoundError,
\* json.JSONDecodeError, Exception
LoadJsonCatches(exc) ==
    \/ exc = "FileNotFoundError"
    \/ exc = "JSONDecodeError"
    \/ exc \in Exceptions

\* a call's outcome: the exception that reaches the caller ("none" when the
\* call returns) and the value returned
Returned(v) == [raised |-> FALSE, exc |-> "none", val |-> v]

Raised(e) == [raised |-> TRUE, exc |-> e, val |-> PyNone]

\* JSONHandler.load_json(json_path)
LoadJson(f) ==
    LET r == JsonLoadFile(f)
    IN  IF r.exc = "none" THEN Returned(r.val)
        ELSE IF LoadJsonCatches(r.exc) THEN Returned(PyNone)
        ELSE Raised(r.exc)

\* the except clauses of JSONer.read_json: FileNotFoundError,
\* json.JSONDecodeError
ReadJsonCatches(exc) == exc \in {"FileNotFoundError", "JSONDecodeError"}

\* JSONer.read_json(json_path)
ReadJson(f) ==
    IF ~IsFile(f) THEN Returned(PyNone)
    ELSE LET r == JsonLoadFile(f)
         IN  IF r.exc = "none" THEN Returned(r.val)
             ELSE IF ReadJsonCatches(r.exc) THEN Returned(PyNone)
             ELSE Raised(r.exc)

\* the json_content argument of save_json: a str (its text), a dict, or a
\* value of another type
StrContent(text) == [t |-> "str", txt |-> text, val |-> PyNone]

DictContent(d) == [t |-> "dict", txt |-> <<>>, val |-> d]

OtherContent == [t |-> "other", txt |-> <<>>, val |-> PyNone]

\* the with block of save_json with the members of an object written in
\* another order than the dict's (as sort_keys would): the first two swapped
WriteBodySorted(content) ==
    CASE content.t = "str"  -> [exc |-> "none", toks |-> content.txt]
      [] content.t = "dict" ->
           [exc |-> "none",
            toks |-> IF Len(content.val.o) >= 2
                     THEN DumpValue(PyDict(
                              <<content.val.o[2], content.val.o[1]>>
                              \o SubSeq(content.val.o, 3, Len(content.val.o))))
                     ELSE DumpValue(content.val)]
      [] OTHER              -> [exc |-> "ValueError", toks |-> <<>>]

\* the body of the with block of save_json and write_json: what the file
\* holds when the block is left, and the exception the block raises
WriteBody(content) ==
    CASE content.t = "str"  -> [exc |-> "none", toks |-> content.txt]
      [] content.t = "dict" -> [exc |-> "none", toks |-> DumpValue(content.val)]
      [] OTHER              -> [exc |-> "ValueError", toks |-> <<>>]

\* the except clauses of JSONHandler.save_json: FileNotFoundError, Exception
SaveJsonCatches(exc) == exc = "FileNotFoundError" \/ exc \in Exceptions

\* JSONHandler.save_json(json_path, json_content): the exception that
\* reaches the caller, the one that was logged, and the file afterwards
SaveJson(f, content) ==
    IF OpenWrite(f) # "none"
    THEN [raised |-> ~SaveJsonCatches(OpenWrite(f)), exc |-> OpenWrite(f),
          file |-> f]
    ELSE LET w == WriteBody(content)
         IN  [raised |-> w.exc # "none" /\ ~SaveJsonCatches(w.exc),
              exc |-> w.exc, file |-> File("file", w.toks)]

\* JSONer.write_json(json_path, json_content): the same try block, the
\* isinstance tests in the other order
WriteJson(f, content) == SaveJson(f, content)

(***************************************************************************)
(* FileReader.  A directory is [exists, names]; names is os.listdir's      *)
(* result, each entry carrying the file behind it: [stem, ext, st, parts]  *)
(* with st "ok" (the decoder yields parts: paragraphs or pages), "gone"    *)
(* (removed before it is opened), "locked" (permission denied), "corrupt"  *)
(* (the decoder raises) or "dir" (a directory with a document's name).     *)
(***************************************************************************)
DirNames == <<"../docx", "../pdf">>

Entry(stem, ext, st, parts) ==
    [stem |-> stem, ext |-> ext, st |-> st, parts |-> parts]

\* os.path.join(dir_path, file_name), kept in its parts
Path(dir, e) == [dir |-> dir, stem |-> e.stem, ext |-> e.ext]

\* str.lower on a file extension
Lower(ext) ==
    CASE ext = ".DOCX" -> ".docx"
      [] ext = ".Pdf"  -> ".pdf"
      [] ext = ".PDF"  -> ".pdf"
      [] OTHER         -> ext

\* FileReader._valid_extensions
ValidExtensions == {".docx", ".pdf"}

\* the inner loop of _retrieve_file_paths over one directory listing
RECURSIVE ListPaths(_, _)
ListPaths(dir, names) ==
    IF names = <<>> THEN <<>>
    ELSE (IF Lower(Head(names).ext) \in ValidExtensions
          THEN <<[path |-> Path(dir, Head(names)), e |-> Head(names)]>>
          ELSE <<>>)
         \o ListPaths(dir, Tail(names))

\* FileReader._retrieve_file_paths: dir_paths is a sequence of directory
\* names, fs maps a directory name to its directory
RECURSIVE RetrieveFilePaths(_, _)
RetrieveFilePaths(dir_paths, fs) ==
    IF dir_paths = <<>> THEN <<>>
    ELSE (IF fs[Head(dir_paths)].exists
          THEN ListPaths(Head(dir_paths), fs[Head(dir_paths)].names)
          ELSE <<>>)
         \o RetrieveFilePaths(Tail(dir_paths), fs)

RECURSIVE JoinLines(_)
\* '\n'.join(text)
JoinLines(parts) ==
    IF parts = <<>> THEN ""
    ELSE IF Len(parts) = 1 THEN parts[1]
    ELSE parts[1] \o "\n" \o JoinLines(Tail(parts))

RECURSIVE Concat(_)
\* text += page.extract_text() over the pages
Concat(parts) ==
    IF parts = <<>> THEN "" ELSE parts[1] \o Concat(Tail(parts))

\* what open(file_path, "rb") and then reader_func raise for an entry
ExtractExc(e) ==
    CASE e.st = "gone"    -> "FileNotFoundError"
      [] e.st = "locked"  -> "PermissionError"
      [] e.st = "dir"     -> "IsADirectoryError"
      [] e.st = "corrupt" -> "Exception"
      [] OTHER            -> "none"

\* str(e) of the exception
ExcText(exc) ==
    CASE exc = "FileNotFoundError" -> "[Errno 2] No such file or directory"
      [] exc = "PermissionError"   -> "[Errno 13] Permission denied"
      [] exc = "IsADirectoryError" -> "[Errno 21] Is a directory"
      [] OTHER                     -> "File is not a zip file"

\* FileReader._read_file with its last clause, except Exception, missing
ReadFileNoCatchAll(e, text) ==
    LET exc == ExtractExc(e)
    IN  CASE exc = "none" -> [raised |-> FALSE, text |-> text]
          [] exc = "FileNotFoundError" ->
               [raised |-> FALSE, text |-> "File not found: " \o ExcText(exc)]
          [] exc = "PermissionError" ->
               [raised |-> FALSE, text |-> "Permission error: " \o ExcText(exc)]
          [] OTHER -> [raised |-> TRUE, text |-> ""]

\* FileReader._read_file(file_path, reader_func): text is what reader_func
\* returns when nothing raises
ReadFile(e, text) ==
    LET exc == ExtractExc(e)
    IN  CASE exc = "none" -> [raised |-> FALSE, text |-> text]
          [] exc = "FileNotFoundError" ->
               [raised |-> FALSE, text |-> "File not found: " \o ExcText(exc)]
          [] exc = "PermissionError" ->
               [raised |-> FALSE, text |-> "Permission error: " \o ExcText(exc)]
          [] OTHER ->
               [raised |-> FALSE, text |-> "An error occurred: " \o ExcText(exc)]

\* FileReader._read_docx
ReadDocx(e) == ReadFile(e, JoinLines(e.parts))

\* FileReader._read_pdf
ReadPdf(e) == ReadFile(e, Concat(e.parts))

\* file_extensions_and_reader_functions[os.path.splitext(path)[1].lower()]
ReadByExtension(e) ==
    IF Lower(e.ext) = ".docx" THEN ReadDocx(e) ELSE ReadPdf(e)

HasPath(m, path) == \E i \in 1..Len(m) : m[i].path = path

\* file_paths_and_file_contents[file_path] = text
MapSet(m, path, text) ==
    IF HasPath(m, path)
    THEN [i \in 1..Len(m) |->
             IF m[i].path = path THEN [path |-> path, text |-> text] ELSE m[i]]
    ELSE Append(m, [path |-> path, text |-> text])

\* the loop of read_file_contents over the retrieved paths; it stops at
\* the first read that raises
RECURSIVE ReadAll(_, _)
ReadAll(found, m) ==
    IF found = <<>> THEN [raised |-> FALSE, map |-> m]
    ELSE LET r == ReadByExtension(Head(found).e)
         IN  IF r.raised THEN [raised |-> TRUE, map |-> m]
             ELSE ReadAll(Tail(found), MapSet(m, Head(found).path, r.text))

\* FileReader(dir_paths).read_file_contents()
ReadFileContents(dir_paths, fs) ==
    ReadAll(RetrieveFilePaths(dir_paths, fs), <<>>)

\* pathlib.Path(file_path).stem
Stem(path) == path.stem

(***************************************************************************)
(* MongoDB adapter.  The store is a stub: a collection is a sequence of    *)
(* [id, doc]; each call on it either works or fails with the outcome so    *)
(* ("ok", "WriteError", or another "Exception") the caller of the model    *)
(* chooses.                                                                *)
(***************************************************************************)
MRet(raised, exc, none, n, found, ids) ==
    [raised |-> raised, exc |-> exc, none |-> none, n |-> n,
     docs |-> found, ids |-> ids]

\* the call returned None
MNone == MRet(FALSE, "none", TRUE, 0, <<>>, <<>>)

\* the call raised exc to its caller
MRaised(exc) == MRet(TRUE, exc, FALSE, 0, <<>>, <<>>)

\* a document matches a query when it holds every pair of the query
Matches(doc, query) ==
    \A i \in 1..Len(query.o) :
        /\ HasKey(doc.o, query.o[i].k)
        /\ DictGet(doc, query.o[i].k) = query.o[i].v

RECURSIVE MaxId(_)
MaxId(c) ==
    IF c = <<>> THEN 0
    ELSE LET m == MaxId(Tail(c))
         IN  IF Head(c).id > m THEN Head(c).id ELSE m

RECURSIVE InsertAll(_, _)
InsertAll(c, documents) ==
    IF documents = <<>> THEN c
    ELSE InsertAll(Append(c, [id |-> MaxId(c) + 1, doc |-> Head(documents)]),
                   Tail(documents))

RECURSIVE Select(_, _)
\* the entries of the collection that match the query, in order
Select(c, query) ==
    IF c = <<>> THEN <<>>
    ELSE (IF Matches(Head(c).doc, query) THEN <<Head(c)>> ELSE <<>>)
         \o Select(Tail(c), query)

RECURSIVE Reject(_, _)
Reject(c, query) ==
    IF c = <<>> THEN <<>>
    ELSE (IF Matches(Head(c).doc, query) THEN <<>> ELSE <<Head(c)>>)
         \o Reject(Tail(c), query)

RECURSIVE RejectFirst(_, _)
RejectFirst(c, query) ==
    IF c = <<>> THEN <<>>
    ELSE IF Matches(Head(c).doc, query) THEN Tail(c)
    ELSE <<Head(c)>> \o RejectFirst(Tail(c), query)

Docs(c) == [i \in 1..Len(c) |-> c[i].doc]

Ids(c) == [i \in 1..Len(c) |-> c[i].id]

\* MongoDB.__enter__: co is what MongoClient(...) does ("ok" or the
\* exception it raises); a database or collection name that is not a str
\* makes self._client[...] / self._database[...] raise TypeError after the
\* client exists.  Only ConnectionFailure is caught, and re-raised.
MongoEnter(database_name, collection_name, co) ==
    IF co # "ok" THEN [exc |-> co, client |-> "none"]
    ELSE IF database_name.t # "str" \/ collection_name.t # "str"
    THEN [exc |-> "TypeError", client |-> "open"]
    ELSE [exc |-> "none", client |-> "open"]

\* MongoDB.__exit__: if self._client is not None: self._client.close()
MongoExit(cl) == IF cl # "none" THEN "closed" ELSE cl

\* MongoDB.insert_document
InsertDocument(c, document, so) ==
    IF so = "ok"
    THEN [ret |-> MRet(FALSE, "none", FALSE, 0, <<>>, <<MaxId(c) + 1>>),
          coll |-> InsertAll(c, <<document>>)]
    ELSE [ret |-> MRaised("Exception"), coll |-> c]

\* MongoDB.insert_documents
InsertDocuments(c, documents, so) ==
    IF so = "ok"
    THEN [ret |-> MRet(FALSE, "none", FALSE, 0, <<>>,
                       [i \in 1..Len(documents) |-> MaxId(c) + i]),
          coll |-> InsertAll(c, documents)]
    ELSE [ret |-> MRaised("Exception"), coll |-> c]

\* MongoDB.delete_document with its except clauses re-raising
DeleteDocumentRaising(c, query, so) ==
    IF so = "ok"
    THEN [ret |-> MRet(FALSE, "none", FALSE,
                       Len(c) - Len(RejectFirst(c, query)), <<>>, <<>>),
          coll |-> RejectFirst(c, query)]
    ELSE [ret |-> MRaised("Exception"), coll |-> c]

\* MongoDB.delete_document
DeleteDocument(c, query, so) ==
    IF so = "ok"
    THEN [ret |-> MRet(FALSE, "none", FALSE,
                       Len(c) - Len(RejectFirst(c, query)), <<>>, <<>>),
          coll |-> RejectFirst(c, query)]
    ELSE [ret |-> MNone, coll |-> c]

\* MongoDB.delete_documents
DeleteDocuments(c, query, so) ==
    IF so = "ok"
    THEN [ret |-> MRet(FALSE, "none", FALSE,
                       Len(c) - Len(Reject(c, query)), <<>>, <<>>),
          coll |-> Reject(c, query)]
    ELSE [ret |-> MNone, coll |-> c]

\* MongoDB.find_document: the first match, None when there is none
FindDocument(c, query, so) ==
    IF so = "ok"
    THEN [ret |-> IF Select(c, query) = <<>> THEN MNone
                  ELSE MRet(FALSE, "none", FALSE, 0,
                            <<Head(Select(c, query)).doc>>, <<>>),
          coll |-> c]
    ELSE [ret |-> MNone, coll |-> c]

\* MongoDB.find_documents
FindDocuments(c, query, so) ==
    IF so = "ok"
    THEN [ret |-> MRet(FALSE, "none", FALSE, 0, Docs(Select(c, query)), <<>>),
          coll |-> c]
    ELSE [ret |-> MNone, coll |-> c]

(***************************************************************************)
(* State.                                                                  *)
(***************************************************************************)
VARIABLES
    \* ResumeParser: position in __init__ / parse_resumes
    pc,
    \* what load_json returned for configuration/api_key.json
    cred,
    \* openai.api_key
    api_key,
    \* what load_json returned for configuration/parsing_format.json
    fmt,
    \* parsing_format, the json.dumps text of fmt
    parsing_format,
    \* file_paths_and_file_contents, in insertion order
    docs,
    \* the position of the for loop in docs
    idx,
    \* response["choices"][0]["message"]["content"] of the current document
    response,
    parsed_contents,
    \* ../json/parsed_resume/<stem>.json, by stem
    out,
    \* what load_json returned for configuration/mongo_db.json
    db_config,
    \* the exception on its way out of the run, "none" when there is none
    exc,
    \* the calls made so far on the completion service, the output files
    \* and the store, in order
    trace,
    \* MongoDB._client: "none", "open", "closed"
    client,
    \* the store's collection
    coll,
    \* the outcome of the last call on the adapter, with its name
    mret,
    \* codec runs: the file before the run, the file, the content handed to
    \* save, the calls made, the outcome of the last load
    cfile0, cfile, cin, chist, cret,
    \* extractor runs: position, dir_paths, the directories, the outcome
    rpc, rpaths, rdirs, rret

pvars == <<pc, cred, api_key, fmt, parsing_format, docs, idx, response,
           parsed_contents, out, db_config, exc, trace>>

mvars == <<client, coll, mret>>

cvars == <<cfile0, cfile, cin, chist, cret>>

rvars == <<rpc, rpaths, rdirs, rret>>

vars == <<pvars, mvars, cvars, rvars>>

(***************************************************************************)
(* Inputs.                                                                 *)
(***************************************************************************)
StemNames == <<"alice", "bob", "carol", "dave">>

Stems == {StemNames[i] : i \in 1..MaxStems}

KeyNames == <<"name", "skills", "age", "email">>

Keys == {KeyNames[i] : i \in 1..MaxKeys}

Values ==
    {PyNone, PyBool(TRUE), PyInt(7), PyStr("x"), PyDict(<<>>),
     PyDict(<<Pair("k", PyStr("y"))>>)}

KeySeqs ==
    {ks \in UNION {[1..n -> Keys] : n \in 0..MaxKeys} :
        \A i, j \in 1..Len(ks) : i # j => ks[i] # ks[j]}

\* the JSON-representable mappings the codec is run on
Mappings ==
    UNION {{PyDict([i \in 1..Len(ks) |-> Pair(ks[i], vs[i])]) :
               vs \in [1..Len(ks) -> Values]} : ks \in KeySeqs}

\* a text that is not JSON: an object cut off after its first key
BadText == <<Tok("{"), TokStr("name")>>

GoodText == DumpValue(PyDict(<<Pair("name", PyStr("x"))>>))

Contents ==
    {DictContent(d) : d \in Mappings}
    \cup {StrContent(GoodText), StrContent(BadText), OtherContent}

CodecFiles ==
    {File("nodir", <<>>), File("missing", <<>>), File("dir", <<>>),
     File("locked", GoodText), File("binary", <<>>), File("file", GoodText),
     File("file", BadText), File("file", <<>>), File("file", <<Tok("null")>>)}

ApiKeyFiles ==
    {File("missing", <<>>), File("file", BadText),
     File("file", DumpValue(PyDict(<<>>))),
     File("file", DumpValue(PyDict(<<Pair("api_key", PyStr("sk-1"))>>)))}

FormatFiles == {File("missing", <<>>), File("file", GoodText)}

FullStoreConfig ==
    PyDict(<<Pair("uri", PyStr("mongodb://db")),
             Pair("database_name", PyStr("resumes")),
             Pair("collection_name", PyStr("parsed"))>>)

StoreConfigFiles ==
    {File("missing", <<>>), File("file", DumpValue(FullStoreConfig)),
     File("file", DumpValue(PyDict(<<Pair("uri", PyStr("mongodb://db"))>>)))}

\* what MongoClient(...) does
ConnectOutcomes == {"ok", "ConnectionFailure"}

\* what a call on the collection does
StoreOutcomes == {"ok", "WriteError", "Exception"}

\* the paragraphs or pages of a document
Parts(stem) == <<stem, "resume">>

\* the extension a directory's documents carry; the second pdf is upper case
ExtOf(dir, i) ==
    IF dir = "../docx" THEN ".docx" ELSE IF i = 2 THEN ".PDF" ELSE ".pdf"

\* a listing: the stems whose choice is not "absent", in order, each with
\* the chosen state
RECURSIVE Listing(_, _, _)
Listing(dir, ch, i) ==
    IF i > MaxStems THEN <<>>
    ELSE (IF ch[i] = "absent" THEN <<>>
          ELSE <<Entry(StemNames[i], ExtOf(dir, i), ch[i],
                       Parts(StemNames[i]))>>)
         \o Listing(dir, ch, i + 1)

\* a file no reader exists for, in every ../docx listing
Notes == Entry("notes", ".txt", "ok", <<"todo">>)

Dirs(e1, ch1, e2, ch2) ==
    [d \in {"../docx", "../pdf"} |->
        IF d = "../docx"
        THEN [exists |-> e1, names |-> <<Notes>> \o Listing(d, ch1, 1)]
        ELSE [exists |-> e2, names |-> Listing(d, ch2, 1)]]

\* the directories a pipeline run finds
PipelineDirs ==
    {Dirs(TRUE, ch1, TRUE, ch2) :
        ch1 \in [1..MaxStems -> {"absent", "ok", "corrupt"}],
        ch2 \in [1..MaxStems -> {"absent", "ok"}]}

\* the directories an extractor run finds
ReaderDirs ==
    {Dirs(e1, ch1, e2, ch2) :
        e1 \in BOOLEAN, e2 \in BOOLEAN,
        ch1 \in [1..MaxStems -> {"absent", "ok", "gone", "corrupt", "dir"}],
        ch2 \in [1..MaxStems -> {"absent", "ok", "locked"}]}

ReaderDirPaths ==
    {DirNames, <<"../pdf">>, <<"../docx", "../docx">>, <<>>}

\* the output directory before a run: empty, absent, or holding one file
\* the process may not write
OutDirs ==
    {[s \in Stems |-> File("missing", <<>>)],
     [s \in Stems |-> File("nodir", <<>>)],
     [s \in Stems |-> IF s = StemNames[1] THEN File("locked", GoodText)
                      ELSE File("missing", <<>>)]}

\* the stub of the completion service: it raises, or answers with a JSON
\* object naming the owner, or with a text that is not JSON
ServiceAnswer(owner) == DumpValue(PyDict(<<Pair("name", PyStr(owner))>>))

ServiceOutcomes(owner) ==
    {[exc |-> "ServiceError", text |-> <<>>],
     [exc |-> "none", text |-> ServiceAnswer(owner)],
     [exc |-> "none", text |-> BadText]}

\* an entry of the trace: the call, the document it was made for (0 for a
\* call on the store), the document's stem, and how the call ended
Event(ev, k, stem, res) == [ev |-> ev, doc |-> k, stem |-> stem, res |-> res]

\* the events of one kind in the trace
Events(ev) == {i \in 1..Len(trace) : trace[i].ev = ev}

(***************************************************************************)
(* ResumeParser.                                                           *)
(***************************************************************************)
\* _set_openai_api_key on what load_json returned: .get on a value that is
\* no dict raises AttributeError, which the except clause
\* (FileNotFoundError) lets through
SetApiKey(loaded) ==
    IF loaded.t # "dict" THEN [exc |-> "AttributeError", key |-> PyNone]
    ELSE [exc |-> "none", key |-> DictGet(loaded, "api_key")]

\* the loop body with a try/except around it that logs and goes on to the
\* next document
OnDocumentErrorSkip(e) == [pc |-> "next", exc |-> "none"]

\* the loop body with a try/except around it that logs and makes the
\* request for the same document again
OnDocumentErrorRetry(e) == [pc |-> "loop", exc |-> "none"]

\* an exception raised in the loop body of parse_resumes: nothing catches
\* it, the run ends
OnDocumentError(e) == [pc |-> "raised", exc |-> e]

\* lines 86-89 with the response object handed to save_json instead of its
\* first choice's content: save_json rejects the type after opening the file
PersistDocWholeResponse(text, f) ==
    LET p == JsonLoads(text)
    IN  IF ~p.ok
        THEN [exc |-> "JSONDecodeError", val |-> PyNone, saved |-> FALSE,
              file |-> f]
        ELSE [exc |-> "none", val |-> p.val, saved |-> TRUE,
              file |-> SaveJson(f, OtherContent).file]

\* lines 86-89 of parse_resumes for one response text and the output file
\* of its document: json.loads first, then save_json of the same text
PersistDoc(text, f) ==
    LET p == JsonLoads(text)
    IN  IF ~p.ok
        THEN [exc |-> "JSONDecodeError", val |-> PyNone, saved |-> FALSE,
              file |-> f]
        ELSE [exc |-> "none", val |-> p.val, saved |-> TRUE,
              file |-> SaveJson(f, StrContent(text)).file]

\* lines 93-96: db_config.get(...) on what load_json returned
StoreArgs(loaded) ==
    IF loaded.t # "dict"
    THEN [exc |-> "AttributeError", database_name |-> PyNone,
          collection_name |-> PyNone]
    ELSE [exc |-> "none", database_name |-> DictGet(loaded, "database_name"),
          collection_name |-> DictGet(loaded, "collection_name")]

PipelineStart ==
    /\ pc = "new"
    /\ cred = PyNone
    /\ api_key = PyNone
    /\ fmt = PyNone
    /\ parsing_format = <<>>
    /\ docs = <<>>
    /\ idx = 0
    /\ response = <<>>
    /\ parsed_contents = <<>>
    /\ out \in OutDirs
    /\ db_config = PyNone
    /\ exc = "none"
    /\ trace = <<>>

StoreStart ==
    /\ client = "none"
    /\ coll = <<>>
    /\ mret = [op |-> "none", so |-> "ok", ret |-> MNone]

CodecIdle ==
    /\ cfile0 = File("missing", <<>>)
    /\ cfile = File("missing", <<>>)
    /\ cin = OtherContent
    /\ chist = <<>>
    /\ cret = Returned(PyNone)

ReaderIdle ==
    /\ rpc = "idle"
    /\ rpaths = <<>>
    /\ rdirs = Dirs(FALSE, [i \in 1..MaxStems |-> "absent"],
                    FALSE, [i \in 1..MaxStems |-> "absent"])
    /\ rret = [raised |-> FALSE, map |-> <<>>]

\* ResumeParser.__init__
Construct ==
    /\ pc = "new"
    /\ \E f \in ApiKeyFiles :
         LET loaded == LoadJson(f)
             r == SetApiKey(loaded.val)
             e == IF loaded.raised THEN loaded.exc ELSE r.exc
         IN  /\ cred' = loaded.val
             /\ api_key' = r.key
             /\ exc' = e
             /\ pc' = IF e = "none" THEN "constructed" ELSE "raised"
    /\ UNCHANGED <<fmt, parsing_format, docs, idx, response, parsed_contents,
                   out, db_config, trace, mvars, cvars, rvars>>

\* parse_resumes, lines 72-78: the parsing format and the documents
Start ==
    /\ pc = "constructed"
    /\ \E f \in FormatFiles, d \in PipelineDirs :
         LET loaded == LoadJson(f)
             read == ReadFileContents(DirNames, d)
             e == IF loaded.raised THEN loaded.exc
                  ELSE IF read.raised THEN "Exception" ELSE "none"
         IN  /\ fmt' = loaded.val
             /\ parsing_format' = DumpValue(loaded.val)
             /\ docs' = IF loaded.raised THEN <<>> ELSE read.map
             /\ exc' = e
             /\ pc' = IF e = "none" THEN "loop" ELSE "raised"
    /\ idx' = 1
    /\ parsed_contents' = <<>>
    /\ UNCHANGED <<cred, api_key, response, out, db_config, trace, mvars,
                   cvars, rvars>>

\* line 85: the completion request for the document at idx
Complete ==
    /\ pc = "loop"
    /\ idx <= Len(docs)
    /\ \E r \in ServiceOutcomes(Stem(docs[idx].path)) :
         LET h == OnDocumentError(r.exc)
         IN  /\ trace' = Append(trace,
                                Event("request", idx, Stem(docs[idx].path),
                                      IF r.exc = "none" THEN "answered"
                                      ELSE "raised"))
             /\ response' = r.text
             /\ IF r.exc = "none"
                THEN pc' = "persist" /\ UNCHANGED <<exc, idx>>
                ELSE /\ exc' = h.exc
                     /\ pc' = IF h.pc = "next" THEN "loop" ELSE h.pc
                     /\ idx' = IF h.pc = "next" THEN idx + 1 ELSE idx
    /\ UNCHANGED <<cred, api_key, fmt, parsing_format, docs, parsed_contents,
                   out, db_config, mvars, cvars, rvars>>

\* lines 86-90: parse the response, write the output file
Persist ==
    /\ pc = "persist"
    /\ LET stem == Stem(docs[idx].path)
           r == PersistDoc(response, out[stem])
           h == OnDocumentError(r.exc)
       IN  /\ out' = [out EXCEPT ![stem] = r.file]
           /\ trace' = IF r.saved
                       THEN Append(trace,
                                   Event("save", idx, stem,
                                         IF OpenWrite(out[stem]) = "none"
                                         THEN "written" ELSE "failed"))
                       ELSE trace
           /\ IF r.exc = "none"
              THEN /\ parsed_contents' = Append(parsed_contents, r.val)
                   /\ idx' = idx + 1
                   /\ pc' = "loop"
                   /\ UNCHANGED exc
              ELSE /\ UNCHANGED parsed_contents
                   /\ exc' = h.exc
                   /\ pc' = IF h.pc = "next" THEN "loop" ELSE h.pc
                   /\ idx' = IF h.pc = "next" THEN idx + 1 ELSE idx
    /\ UNCHANGED <<cred, api_key, fmt, parsing_format, docs, response,
                   db_config, mvars, cvars, rvars>>

\* lines 93-96: the store configuration and the MongoDB(...) arguments
LoadStoreConfig ==
    /\ pc = "loop"
    /\ idx > Len(docs)
    /\ \E f \in StoreConfigFiles :
         LET loaded == LoadJson(f)
             e == IF loaded.raised THEN loaded.exc
                  ELSE StoreArgs(loaded.val).exc
         IN  /\ db_config' = loaded.val
             /\ exc' = e
             /\ pc' = IF e = "none" THEN "enter" ELSE "raised"
    /\ UNCHANGED <<cred, api_key, fmt, parsing_format, docs, idx, response,
                   parsed_contents, out, trace, mvars, cvars, rvars>>

\* line 96: with MongoDB(...) as mongo_db, __enter__
Enter ==
    /\ pc = "enter"
    /\ \E co \in ConnectOutcomes :
         LET a == StoreArgs(db_config)
             r == MongoEnter(a.database_name, a.collection_name, co)
         IN  /\ client' = r.client
             /\ trace' = IF r.client = "open"
                         THEN Append(trace, Event("open", 0, "", r.exc))
                         ELSE trace
             /\ exc' = r.exc
             /\ pc' = IF r.exc = "none" THEN "with" ELSE "raised"
    /\ UNCHANGED <<cred, api_key, fmt, parsing_format, docs, idx, response,
                   parsed_contents, out, db_config, coll, mret, cvars, rvars>>

\* line 98: mongo_db.insert_documents(parsed_contents)
Insert ==
    /\ pc = "with"
    /\ \E so \in StoreOutcomes :
         LET r == InsertDocuments(coll, parsed_contents, so)
         IN  /\ coll' = r.coll
             /\ mret' = [op |-> "insert_documents", so |-> so, ret |-> r.ret]
             /\ exc' = r.ret.exc
             /\ trace' = Append(trace, Event("insert", 0, "", r.ret.exc))
    /\ pc' = "exit"
    /\ UNCHANGED <<cred, api_key, fmt, parsing_format, docs, idx, response,
                   parsed_contents, out, db_config, client, cvars, rvars>>

\* the end of the with block: __exit__, then the pending exception goes on
Exit ==
    /\ pc = "exit"
    /\ client' = MongoExit(client)
    /\ trace' = IF client' = "closed" /\ client # "closed"
                THEN Append(trace, Event("close", 0, "", "none"))
                ELSE trace
    /\ pc' = IF exc = "none" THEN "done" ELSE "raised"
    /\ UNCHANGED <<cred, api_key, fmt, parsing_format, docs, idx, response,
                   parsed_contents, out, db_config, exc, coll, mret, cvars,
                   rvars>>

Init == PipelineStart /\ StoreStart /\ CodecIdle /\ ReaderIdle

Next ==
    \/ Construct
    \/ Start
    \/ Complete
    \/ Persist
    \/ LoadStoreConfig
    \/ Enter
    \/ Insert
    \/ Exit

\* one run of the pipeline: ResumeParser().parse_resumes()
Spec == Init /\ [][Next]_vars

(***************************************************************************)
(* The extractor on its own: FileReader(dir_paths).read_file_contents().   *)
(***************************************************************************)
PipelineIdle ==
    /\ pc = "idle"
    /\ cred = PyNone
    /\ api_key = PyNone
    /\ fmt = PyNone
    /\ parsing_format = <<>>
    /\ docs = <<>>
    /\ idx = 0
    /\ response = <<>>
    /\ parsed_contents = <<>>
    /\ out = [s \in Stems |-> File("missing", <<>>)]
    /\ db_config = PyNone
    /\ exc = "none"
    /\ trace = <<>>

ReaderInit ==
    /\ PipelineIdle /\ StoreStart /\ CodecIdle
    /\ rpc = "start"
    /\ rpaths \in ReaderDirPaths
    /\ rdirs \in ReaderDirs
    /\ rret = [raised |-> FALSE, map |-> <<>>]

ReadContents ==
    /\ rpc = "start"
    /\ rret' = ReadFileContents(rpaths, rdirs)
    /\ rpc' = "read"
    /\ UNCHANGED <<rpaths, rdirs, pvars, mvars, cvars>>

ReaderNext == ReadContents

SpecReader == ReaderInit /\ [][ReaderNext]_vars

(***************************************************************************)
(* The codec on its own: one save or write, then one load or read, of one  *)
(* path; or a load or read of the file as it was found.                    *)
(***************************************************************************)
CodecInit ==
    /\ PipelineIdle /\ StoreStart /\ ReaderIdle
    /\ cfile0 \in CodecFiles
    /\ cfile = cfile0
    /\ cin \in Contents
    /\ chist = <<>>
    /\ cret = Returned(PyNone)

\* JSONHandler().save_json(path, cin)
CSaveJson ==
    /\ chist = <<>>
    /\ LET r == SaveJson(cfile, cin)
       IN  /\ cfile' = r.file
           /\ cret' = [raised |-> r.raised, exc |-> r.exc, val |-> PyNone]
    /\ chist' = <<"save_json">>
    /\ UNCHANGED <<cfile0, cin, pvars, mvars, rvars>>

\* JSONer().write_json(path, cin)
CWriteJson ==
    /\ chist = <<>>
    /\ LET r == WriteJson(cfile, cin)
       IN  /\ cfile' = r.file
           /\ cret' = [raised |-> r.raised, exc |-> r.exc, val |-> PyNone]
    /\ chist' = <<"write_json">>
    /\ UNCHANGED <<cfile0, cin, pvars, mvars, rvars>>

Loaded == chist # <<>> /\ chist[Len(chist)] \in {"load_json", "read_json"}

\* JSONHandler().load_json(path)
CLoadJson ==
    /\ ~Loaded
    /\ cret' = LoadJson(cfile)
    /\ chist' = Append(chist, "load_json")
    /\ UNCHANGED <<cfile0, cfile, cin, pvars, mvars, rvars>>

\* JSONer().read_json(path)
CReadJson ==
    /\ ~Loaded
    /\ cret' = ReadJson(cfile)
    /\ chist' = Append(chist, "read_json")
    /\ UNCHANGED <<cfile0, cfile, cin, pvars, mvars, rvars>>

CodecNext ==
    \/ CSaveJson
    \/ CWriteJson
    \/ CLoadJson
    \/ CReadJson

SpecCodec == CodecInit /\ [][CodecNext]_vars

(***************************************************************************)
(* The adapter on its own: with MongoDB(...) as m, any calls, the exit.    *)
(***************************************************************************)
\* the documents ever inserted in a run of the adapter
MaxInserted == 3

StoreDocs == {PyDict(<<Pair("name", PyStr(st))>>) : st \in Stems}

Queries == {PyDict(<<>>)} \cup StoreDocs

MongoInit == PipelineIdle /\ StoreStart /\ CodecIdle /\ ReaderIdle

MEnter ==
    /\ client = "none"
    /\ mret.op = "none"
    /\ \E co \in ConnectOutcomes, dbn \in {PyNone, PyStr("resumes")} :
         LET r == MongoEnter(dbn, PyStr("parsed"), co)
         IN  /\ client' = r.client
             /\ mret' = [op |-> "__enter__", so |-> co,
                         ret |-> IF r.exc = "none" THEN MNone
                                 ELSE MRaised(r.exc)]
    /\ UNCHANGED <<coll, pvars, cvars, rvars>>

\* the with block is entered when __enter__ returned
InBlock == client = "open" /\ (mret.op = "__enter__" => ~mret.ret.raised)

MInsertDocument ==
    /\ InBlock
    /\ MaxId(coll) < MaxInserted
    /\ \E d \in StoreDocs, so \in StoreOutcomes :
         LET r == InsertDocument(coll, d, so)
         IN  /\ coll' = r.coll
             /\ mret' = [op |-> "insert_document", so |-> so, ret |-> r.ret]
    /\ UNCHANGED <<client, pvars, cvars, rvars>>

MInsertDocuments ==
    /\ InBlock
    /\ MaxId(coll) + 2 <= MaxInserted
    /\ \E d1 \in StoreDocs, d2 \in StoreDocs, so \in StoreOutcomes :
         LET r == InsertDocuments(coll, <<d1, d2>>, so)
         IN  /\ coll' = r.coll
             /\ mret' = [op |-> "insert_documents", so |-> so, ret |-> r.ret]
    /\ UNCHANGED <<client, pvars, cvars, rvars>>

MDeleteDocument ==
    /\ InBlock
    /\ \E q \in Queries, so \in StoreOutcomes :
         LET r == DeleteDocument(coll, q, so)
         IN  /\ coll' = r.coll
             /\ mret' = [op |-> "delete_document", so |-> so, ret |-> r.ret]
    /\ UNCHANGED <<client, pvars, cvars, rvars>>

MDeleteDocuments ==
    /\ InBlock
    /\ \E q \in Queries, so \in StoreOutcomes :
         LET r == DeleteDocuments(coll, q, so)
         IN  /\ coll' = r.coll
             /\ mret' = [op |-> "delete_documents", so |-> so, ret |-> r.ret]
    /\ UNCHANGED <<client, pvars, cvars, rvars>>

MFindDocument ==
    /\ InBlock
    /\ \E q \in Queries, so \in StoreOutcomes :
         LET r == FindDocument(coll, q, so)
         IN  /\ coll' = r.coll
             /\ mret' = [op |-> "find_document", so |-> so, ret |-> r.ret]
    /\ UNCHANGED <<client, pvars, cvars, rvars>>

MFindDocuments ==
    /\ InBlock
    /\ \E q \in Queries, so \in StoreOutcomes :
         LET r == FindDocuments(coll, q, so)
         IN  /\ coll' = r.coll
             /\ mret' = [op |-> "find_documents", so |-> so, ret |-> r.ret]
    /\ UNCHANGED <<client, pvars, cvars, rvars>>

MExit ==
    /\ InBlock
    /\ client' = MongoExit(client)
    /\ mret' = [op |-> "__exit__", so |-> "ok", ret |-> MNone]
    /\ UNCHANGED <<coll, pvars, cvars, rvars>>

MongoNext ==
    \/ MEnter
    \/ MInsertDocument
    \/ MInsertDocuments
    \/ MDeleteDocument
    \/ MDeleteDocuments
    \/ MFindDocument
    \/ MFindDocuments
    \/ MExit

SpecMongo == MongoInit /\ [][MongoNext]_vars

(***************************************************************************)
(* Properties of a pipeline run.                                           *)
(***************************************************************************)
Last(q) == q[Len(q)]

\* the stem of the document the loop is at
CurrentStem == Stem(docs[idx].path)

\* the run ended inside the loop, at the document idx
LoopAborted == pc = "raised" /\ exc \in {"ServiceError", "JSONDecodeError"}

C2_AbortedState ==
    /\ (trace # <<>> /\ Last(trace).ev = "request"
        /\ Last(trace).res = "raised") => LoopAborted
    /\ LoopAborted =>
         /\ \A i \in 1..Len(trace) :
              /\ trace[i].ev \in {"request", "save"}
              /\ trace[i].ev = "request" => trace[i].doc <= idx
              /\ trace[i].ev = "save" => trace[i].doc < idx
         /\ client = "none"

C2_AbortingStep ==
    /\ (pc = "persist" /\ ~JsonLoads(response).ok) =>
          (pc' = "raised" /\ exc' = "JSONDecodeError" /\ trace' = trace)
    /\ (pc' = "raised" /\ exc' \in {"ServiceError", "JSONDecodeError"}) =>
          out' = out
    /\ pc # "raised"

\* C2: when the completion call for the document at idx raises, or its
\* content is not valid JSON, the run ends there: no request and no output
\* file for a later document, the store is never opened and nothing is
\* inserted, the step that aborts leaves every output file as it was, and
\* no step follows it.
C2_AbortAtDocument == []C2_AbortedState /\ [][C2_AbortingStep]_vars

\* C2 witness: the run aborted at the second document on a response that
\* is not JSON, the first document's output file being on disk
C2_Witness ==
    /\ LoopAborted
    /\ exc = "JSONDecodeError"
    /\ idx = 2
    /\ \E i \in 1..Len(trace) :
         /\ trace[i].ev = "save"
         /\ trace[i].doc = 1
         /\ trace[i].res = "written"
         /\ out[trace[i].stem] = File("file", ServiceAnswer(trace[i].stem))

\* the constructor has run and found no credential: load_json returned
\* None, or a value with no api_key entry
CredentialAbsent ==
    /\ pc # "new"
    /\ \/ cred.t # "dict"
       \/ ~HasKey(cred.o, "api_key")

\* when load_json returned no dict for the credential file the constructor
\* raised and nothing else ran
NoDictCredentialStops ==
    (pc # "new" /\ cred.t # "dict") =>
        (pc = "raised" /\ exc = "AttributeError" /\ trace = <<>>)

\* C3: with the credential absent the pipeline does not proceed: no
\* completion request is made and no output file is written.
C3_NoCredentialNoRun ==
    CredentialAbsent =>
        /\ Events("request") = {}
        /\ Events("save") = {}

\* parse_resumes has loaded the parsing format and load_json returned None
FormatLoadFailed == parsing_format # <<>> /\ fmt.t = "None"

\* C4: when loading the parsing format fails, parse_resumes aborts before
\* any document is processed: no completion request, no output file.
C4_NoFormatNoRun ==
    FormatLoadFailed =>
        /\ Events("request") = {}
        /\ Events("save") = {}

\* C5 as stated: whenever a response was received and the output path can
\* be opened for writing, the step that handles the response leaves the
\* output file holding the content verbatim, valid JSON or not.
C5_WriteRegardless ==
    [][(pc = "persist" /\ OpenWrite(out[CurrentStem]) = "none") =>
          out'[CurrentStem] = File("file", response)]_vars

\* C5 amended: a response whose content is valid JSON is handed verbatim to
\* save_json for <stem>.json, which leaves the file holding exactly that
\* text when the path can be opened for writing and leaves the file as it
\* was otherwise; a content that is not valid JSON ends the run before the
\* write and no output file is touched.
C5_WriteWhenValid ==
    [][pc = "persist" =>
          IF JsonLoads(response).ok
          THEN /\ Last(trace').ev = "save"
               /\ Last(trace').stem = CurrentStem
               /\ out' = [out EXCEPT ![CurrentStem] =
                            IF OpenWrite(out[CurrentStem]) = "none"
                            THEN File("file", response)
                            ELSE out[CurrentStem]]
          ELSE /\ out' = out
               /\ trace' = trace
               /\ pc' = "raised"]_vars

\* C5 witness: the answer for a document has just been written verbatim to
\* the file of its stem
C5_Witness ==
    /\ pc = "loop"
    /\ trace # <<>>
    /\ Last(trace).ev = "save"
    /\ Last(trace).res = "written"
    /\ out[Last(trace).stem] = File("file", response)
    /\ response = ServiceAnswer(Last(trace).stem)

\* C6: in a run that opened the store connection, it was opened exactly
\* once, exactly one batch insert was issued, and it is closed when the
\* run has ended, whichever way it ended.
C6_ScopedConnection ==
    (pc \in {"done", "raised"} /\ Events("open") # {}) =>
        /\ Cardinality(Events("open")) = 1
        /\ Cardinality(Events("insert")) = 1
        /\ client = "closed"

\* a run whose __enter__ returned made one insert and closed the client,
\* also when the insert raised
ScopedWhenEntered ==
    (pc \in {"done", "raised"}
     /\ \E i \in Events("open") : trace[i].res = "none") =>
        /\ Cardinality(Events("open")) = 1
        /\ Cardinality(Events("insert")) = 1
        /\ client = "closed"

\* C7: when the store configuration is absent (load_json returns None),
\* the step that loads it opens no connection, issues no insert and the
\* run finishes without raising.
C7_StoreOptional ==
    [][(pc = "loop" /\ idx > Len(docs) /\ db_config'.t = "None") =>
          (pc' = "done" /\ trace' = trace /\ client' = "none")]_vars

(***************************************************************************)
(* Properties of the extractor.                                            *)
(***************************************************************************)
Range(q) == {q[i] : i \in 1..Len(q)}

\* the files listed in the existing directories of rpaths whose extension,
\* lower-cased, is .docx or .pdf, each with its path
Discovered ==
    UNION {{[path |-> Path(d, rdirs[d].names[i]), e |-> rdirs[d].names[i]] :
               i \in {j \in 1..Len(rdirs[d].names) :
                        Lower(rdirs[d].names[j].ext) \in {".docx", ".pdf"}}} :
           d \in {x \in Range(rpaths) : rdirs[x].exists}}

\* the value the mapping m holds for path
TextOf(m, path) == m[CHOOSE i \in 1..Len(m) : m[i].path = path].text

\* the directories with the file at path extracting successfully
Repaired(fs, path) ==
    [d \in DOMAIN fs |->
        [exists |-> fs[d].exists,
         names |-> [i \in 1..Len(fs[d].names) |->
                      IF d = path.dir /\ fs[d].names[i].stem = path.stem
                         /\ fs[d].names[i].ext = path.ext
                      THEN [fs[d].names[i] EXCEPT !.st = "ok"]
                      ELSE fs[d].names[i]]]]

ErrorTexts ==
    {"File not found: [Errno 2] No such file or directory",
     "Permission error: [Errno 13] Permission denied",
     "An error occurred: [Errno 21] Is a directory",
     "An error occurred: File is not a zip file"}

\* C1: read_file_contents does not raise and returns a mapping with exactly
\* one entry for every discovered file with a recognised extension and no
\* other entry; a file whose extraction fails has a non-empty error string
\* as its entry, and every other file's entry is what it would be had that
\* file extracted successfully.
C1_OneEntryPerFile ==
    rpc = "read" =>
        /\ ~rret.raised
        /\ \A x \in Discovered :
             Cardinality({i \in 1..Len(rret.map) :
                            rret.map[i].path = x.path}) = 1
        /\ \A i \in 1..Len(rret.map) :
             \E x \in Discovered : x.path = rret.map[i].path
        /\ \A x \in Discovered :
             ExtractExc(x.e) # "none" =>
                /\ TextOf(rret.map, x.path) # ""
                /\ TextOf(rret.map, x.path) \in ErrorTexts
                /\ LET alt == ReadFileContents(rpaths, Repaired(rdirs, x.path))
                   IN  /\ ~alt.raised
                       /\ \A y \in Discovered :
                            y.path # x.path =>
                               TextOf(alt.map, y.path)
                                  = TextOf(rret.map, y.path)

\* C1 witness: a corrupt document has an error entry next to the entry of a
\* document that was read
C1_Witness ==
    /\ rpc = "read"
    /\ Len(rret.map) >= 3
    /\ \E x \in Discovered, y \in Discovered :
         /\ x.e.st = "corrupt"
         /\ TextOf(rret.map, x.path) = "An error occurred: File is not a zip file"
         /\ y.e.st = "ok"
         /\ y.path.dir = "../docx"
         /\ TextOf(rret.map, y.path) = y.e.stem \o "\n" \o "resume"

(***************************************************************************)
(* Properties of the codec.                                                *)
(***************************************************************************)
\* C8: load_json and read_json never raise to their caller; for a path
\* that cannot be opened, decoded or parsed they return None.
C8_LoadNeverRaises ==
    Loaded =>
        /\ ~cret.raised
        /\ JsonLoadFile(cfile).exc # "none" => cret.val = PyNone

\* JSONHandler.load_json alone never raises and returns None on failure
LoadJsonFailsSoft ==
    (Loaded /\ Last(chist) = "load_json") =>
        /\ ~cret.raised
        /\ JsonLoadFile(cfile).exc # "none" => cret.val = PyNone

\* C10: save_json of a mapping to a path that can be opened for writing,
\* then load_json of the path, returns the mapping: the same keys in the
\* same order with the same values.
C10_RoundTrip ==
    (chist = <<"save_json", "load_json">> /\ cin.t = "dict"
     /\ OpenWrite(cfile0) = "none") =>
        /\ ~cret.raised
        /\ cret.val = cin.val

\* C10 witness: a mapping of two keys, one of them holding a nested
\* mapping, came back from a file that did not exist before
C10_Witness ==
    /\ chist = <<"save_json", "load_json">>
    /\ cfile0.st = "missing"
    /\ cin.t = "dict"
    /\ Len(cin.val.o) = 2
    /\ cin.val.o[1].k = "skills"
    /\ cin.val.o[2].v.t = "dict"
    /\ cin.val.o[2].v.o # <<>>
    /\ cret.val = cin.val

(***************************************************************************)
(* Properties of the adapter.                                              *)
(***************************************************************************)
Operations ==
    {"insert_document", "insert_documents", "delete_document",
     "delete_documents", "find_document", "find_documents"}

\* C9 as stated: every operation of an open adapter turns a failure of the
\* store into a None result instead of raising.
C9_AllOperationsSoft ==
    (mret.op \in Operations /\ mret.so # "ok") =>
        (~mret.ret.raised /\ mret.ret.none)

\* C9 amended: on an open adapter delete_document, delete_documents,
\* find_document and find_documents catch any failure of the store and
\* return None; insert_document and insert_documents log the failure and
\* raise it again as Exception; a connection failure at entry propagates.
C9_SoftExceptInsert ==
    /\ (mret.op \in Operations /\ mret.so # "ok") =>
          IF mret.op \in {"insert_document", "insert_documents"}
          THEN mret.ret.raised /\ mret.ret.exc = "Exception"
          ELSE ~mret.ret.raised /\ mret.ret.none
    /\ (mret.op = "__enter__" /\ mret.so # "ok") =>
          (mret.ret.raised /\ mret.ret.exc = "ConnectionFailure")

\* C9 witness: a delete on a collection holding a document failed in the
\* store and returned None, the collection unchanged
C9_Witness ==
    /\ client = "open"
    /\ mret.op = "delete_document"
    /\ mret.so = "WriteError"
    /\ mret.ret.none
    /\ ~mret.ret.raised
    /\ coll # <<>>

(***************************************************************************)
(* save_json and an unsupported content type.                              *)
(***************************************************************************)

\* C11: when json_content is neither a dict nor a str, the call of
\* JSONHandler.save_json ends by raising ValueError to its caller.
C11_SaveRaisesValueError ==
    (chist = <<"save_json">> /\ cin.t = "other") =>
        (cret.raised /\ cret.exc = "ValueError")

\* what save_json does with such a content: nothing reaches the caller;
\* where the path opens, the ValueError is caught by the method's own
\* except Exception and the file is left empty
UnsupportedContentSwallowed ==
    (chist = <<"save_json">> /\ cin.t = "other") =>
        /\ ~cret.raised
        /\ OpenWrite(cfile0) = "none" =>
               (cret.exc = "ValueError" /\ cfile = File("file", <<>>))

(***************************************************************************)
(* The requests of a run and the order of requests and writes.             *)
(***************************************************************************)

\* the requests made for the document at k
RequestsFor(k) == {i \in Events("request") : trace[i].doc = k}

\* the calls of save_json made for the document at k
SavesFor(k) == {i \in Events("save") : trace[i].doc = k}

\* requests made so far are for a prefix of the mapping, one each, in the
\* mapping's order, each for its own document; a run that completed has
\* made one for every entry, each answered
C12_OnePerEntry ==
    /\ \A i \in Events("request") :
         /\ trace[i].doc \in 1..Len(docs)
         /\ trace[i].stem = Stem(docs[trace[i].doc].path)
         /\ Cardinality(RequestsFor(trace[i].doc)) = 1
         /\ \A j \in Events("request") :
              j < i => trace[j].doc < trace[i].doc
         /\ \A k \in 1..(trace[i].doc - 1) : RequestsFor(k) # {}
    /\ pc = "done" =>
         /\ Cardinality(Events("request")) = Len(docs)
         /\ \A k \in 1..Len(docs) :
              /\ Cardinality(RequestsFor(k)) = 1
              /\ \A i \in RequestsFor(k) : trace[i].res = "answered"
              /\ Cardinality(SavesFor(k)) = 1

\* a step that issues a request: it is the first of the run, or the call
\* before it was save_json for the previous document, which has returned,
\* the file holding that document's response where the path opened
C12_RequestAfterSave ==
    (Len(trace') = Len(trace) + 1 /\ Last(trace').ev = "request") =>
        \/ Last(trace').doc = 1 /\ trace = <<>>
        \/ /\ Last(trace').doc > 1
           /\ trace # <<>>
           /\ Last(trace).ev = "save"
           /\ Last(trace).doc = Last(trace').doc - 1
           /\ Last(trace).res = "written" =>
                 out[Last(trace).stem] = File("file", response)

OutputFiles == {s \in Stems : out[s].st = "file"}

\* every save_json call of the run opened its path and wrote
AllWritten == \A i \in Events("save") : trace[i].res = "written"

\* no two entries of the mapping have the same stem
DistinctStems ==
    \A j \in 1..Len(docs), k \in 1..Len(docs) :
        j # k => Stem(docs[j].path) # Stem(docs[k].path)

\* C13: after a run of parse_resumes that completes over N documents, the
\* writes having succeeded, there are N output files, one per document,
\* each holding its own document's response, whatever documents the two
\* input directories hold.
C13_OneFilePerDocument ==
    (pc = "done" /\ AllWritten) =>
        /\ Cardinality(OutputFiles) = Len(docs)
        /\ \A k \in 1..Len(docs) :
             out[Stem(docs[k].path)] =
                 File("file", ServiceAnswer(Stem(docs[k].path)))

\* what does hold: one file per stem; one file per document only where no
\* two documents share a stem
OneFilePerStem ==
    (pc = "done" /\ AllWritten) =>
        /\ OutputFiles = {Stem(docs[k].path) : k \in 1..Len(docs)}
        /\ DistinctStems => Cardinality(OutputFiles) = Len(docs)
        /\ Len(parsed_contents) = Len(docs)

====
